---- MODULE Spec2Model ----
(***************************************************************************)
(* MultiModalVectorStoreIndex (llama_index/indices/multi_modal/base.py):    *)
(* insertion of a batch of nodes into the primary (text) and the image      *)
(* vector store with optional mirroring into the document store and the     *)
(* index structure, and deletion by logical document id (ref_doc_id).       *)
(***************************************************************************)
EXTENDS Integers, Sequences, FiniteSets, TLC

\* ------------------------------------------------------------------ bounds
NumIds == 4          \* node ids in the universe
NumDocs == 3         \* logical document ids a caller may name
MaxBatch == 2        \* longest batch handed to one insert
MaxOps == 2          \* operations in one run of the model

VARIABLES
    stores_text,            \* self._vector_store.stores_text
    store_nodes_override,   \* self._store_nodes_override
    namespaces,             \* storage_context.vector_stores, keys in dict order
    vector_stores,          \* namespace -> set of stored node copies
    docs,                   \* document store: node copies keyed by node id
    ref_doc_info,           \* document store reverse index: ref_doc_id -> node ids
    index_struct,           \* self._index_struct.nodes_dict: store id -> node id
    index_store,            \* the index struct last persisted to the index store
    lastCall,               \* the operation that ran last, its arguments and outcome
    calls,                  \* the collaborator calls the last operation made, in order
    ever_stored,            \* ref_doc_ids of the nodes ever handed to a store's add
    ops                     \* operations run so far

vars == <<stores_text, store_nodes_override, namespaces, vector_stores, docs,
          ref_doc_info, index_struct, index_store, lastCall, calls, ever_stored,
          ops>>

\* ------------------------------------------------------------- identifiers
DEFAULT_VECTOR_STORE == "default"
image_namespace == "image"

NodeIds == {<<"n", k>> : k \in 1..NumIds}
DocIds == {<<"d", k>> : k \in 1..NumDocs}
NoId == <<"none", 0>>

\* ------------------------------------------------------------------- nodes
NoEmbedding == [model |-> "none", id |-> NoId, of |-> ""]

\* The node universe. Node k is an ImageNode when k is 2 or 3 (mod 4) and has
\* text when k is 1 or 2 (mod 4): plain text, captioned image, bare image,
\* plain node with empty text. Odd nodes belong to document 1, even ones to
\* document 2; further documents have no nodes.
NodeOf(k) ==
    [id |-> <<"n", k>>,
     ref_doc_id |-> <<"d", 2 - (k % 2)>>,
     image |-> (k % 4) \in {2, 3},
     text |-> IF (k % 4) \in {1, 2} THEN "t" ELSE "",
     embedding |-> NoEmbedding]

RECURSIVE SortedSeq(_)
SortedSeq(S) ==
    IF S = {} THEN <<>>
    ELSE LET m == CHOOSE x \in S : \A y \in S : x <= y
         IN  <<NodeOf(m)>> \o SortedSeq(S \ {m})

\* batches: up to MaxBatch nodes with distinct ids
Batches == {SortedSeq(S) : S \in {T \in SUBSET (1..NumIds) : Cardinality(T) <= MaxBatch}}

\* ---------------------------------------------------------------- embedders
\* embed_nodes with service_context.embed_model: a vector computed from the text
embed_nodes(n) == [model |-> "text", id |-> n.id, of |-> n.text]
\* embed_image_nodes with the image embed model: a vector computed from the image
embed_image_nodes(n) == [model |-> "image", id |-> n.id, of |-> "img"]

get_node_with_embedding(nodes, is_image) ==
    [i \in DOMAIN nodes |->
        [nodes[i] EXCEPT !.embedding =
            IF is_image THEN embed_image_nodes(nodes[i]) ELSE embed_nodes(nodes[i])]]

\* ---------------------------------------------------------------- partition
IsImageNode(n) == n.image
HasText(n) == n.text # ""

\* the partition written with elif: an image node never counts as a text node
HasTextOnly(n) == n.text # "" /\ ~n.image
text_nodes_elif(nodes) == SelectSeq(nodes, HasTextOnly)

image_nodes_of(nodes) == SelectSeq(nodes, IsImageNode)
text_nodes_of(nodes) == SelectSeq(nodes, HasText)

\* --------------------------------------------------------------- call trace
Call(target, op, nodes, id) == [target |-> target, op |-> op, nodes |-> nodes, id |-> id]

\* ------------------------------------------------------------- vector store
\* add(nodes) -> ids: keeps one entry per node id, returns one id per node, in order
VectorStoreAdd(store, nodes) ==
    {e \in store : \A i \in DOMAIN nodes : nodes[i].id # e.id}
        \cup {nodes[i] : i \in DOMAIN nodes}
VectorStoreAddIds(nodes) == [i \in DOMAIN nodes |-> nodes[i].id]
\* delete(id): drops what is stored under the id, be it a ref_doc_id or a node id
VectorStoreDelete(store, x) == {e \in store : e.ref_doc_id # x /\ e.id # x}

\* ----------------------------------------------------------- document store
\* add_documents([node], allow_update=True): upsert, and note the node under its ref doc
DocstoreAddDocs(d, node) == {e \in d : e.id # node.id} \cup {node}
DocstoreAddInfo(info, node) ==
    [r \in DOMAIN info \cup {node.ref_doc_id} |->
        IF r = node.ref_doc_id
        THEN (IF r \in DOMAIN info THEN info[r] ELSE {}) \cup {node.id}
        ELSE info[r]]
\* get_ref_doc_info(ref_doc_id): None when the id is unknown
RefDocKnown(info, ref) == ref \in DOMAIN info
\* delete_ref_doc(ref_doc_id, raise_error=False): a missing entry is not an error
DocstoreDeleteDocs(d, info, ref) ==
    IF RefDocKnown(info, ref) THEN {e \in d : e.id \notin info[ref]} ELSE d
DocstoreDeleteInfo(info, ref) == [r \in DOMAIN info \ {ref} |-> info[r]]

\* ---------------------------------------------------------- index structure
EmptyStruct == [k \in {} |-> NoId]
\* add_node(node, text_id): nodes_dict[text_id] = node.node_id
IndexStructAddNode(struct, node, text_id) ==
    [k \in DOMAIN struct \cup {text_id} |->
        IF k = text_id THEN node.id ELSE struct[k]]
\* delete(node_id): drops the key
IndexStructDelete(struct, key) == [k \in DOMAIN struct \ {key} |-> struct[k]]

\* -------------------------------------------------------------------- insert
\* the mirroring test written as the test delete_ref_doc makes (line 304)
Mirroring_AsDelete(st, ov) == ov \/ st

\* line 284: not self._vector_store.stores_text or self._store_nodes_override
Mirroring(st, ov) == ~st \/ ov

\* the copy mirrored with its embedding left in place
node_with_embedding(node) == node

\* lines 287-288: node.copy() with embedding = None
node_without_embedding(node) == [node EXCEPT !.embedding = NoEmbedding]

\* the working state of one handler run: the collaborators' contents, the
\* handler's locals, the calls made so far and the exception raised, if any
Work(vs, d, info, idx, persisted) ==
    [vs |-> vs, docs |-> d, info |-> info, idx |-> idx, persisted |-> persisted,
     text_nodes |-> <<>>, image_nodes |-> <<>>,
     new_text_ids |-> <<>>, new_img_ids |-> <<>>,
     calls |-> <<>>, raised |-> "none"]

\* which embedding call of an insert raises, if any (the first to raise ends the call)
EmbedFailures == {"none", "text", "image"}

\* lines 255-262: the two partitions of the batch
Partition(w, nodes) ==
    [w EXCEPT !.text_nodes = text_nodes_of(nodes),
              !.image_nodes = image_nodes_of(nodes)]

\* lines 265-270: embed the text partition, add it to the primary store
TextStage(w, fail) ==
    LET w1 == [w EXCEPT !.calls =
                  Append(@, Call("embed_model", "embed_nodes", w.text_nodes, NoId))]
        embedded == get_node_with_embedding(w.text_nodes, FALSE)
    IN  IF fail = "text"
        THEN [w1 EXCEPT !.raised = "text_embed_error"]
        ELSE [w1 EXCEPT
                !.text_nodes = embedded,
                !.vs[DEFAULT_VECTOR_STORE] = VectorStoreAdd(@, embedded),
                !.new_text_ids = VectorStoreAddIds(embedded),
                !.calls = Append(@, Call(DEFAULT_VECTOR_STORE, "add", embedded, NoId))]

\* lines 273-278: embed the image partition, add it to the image store
ImageStage(w, fail) ==
    LET w1 == [w EXCEPT !.calls =
                  Append(@, Call("image_embed_model", "embed_image_nodes",
                                 w.image_nodes, NoId))]
        embedded == get_node_with_embedding(w.image_nodes, TRUE)
    IN  IF w.raised # "none" THEN w
        ELSE IF fail = "image"
        THEN [w1 EXCEPT !.raised = "image_embed_error"]
        ELSE [w1 EXCEPT
                !.image_nodes = embedded,
                !.vs[image_namespace] = VectorStoreAdd(@, embedded),
                !.new_img_ids = VectorStoreAddIds(embedded),
                !.calls = Append(@, Call(image_namespace, "add", embedded, NoId))]

\* lines 285-293: one turn of the loop over zip(all_nodes, all_new_ids)
MirrorOne(w, node, new_id) ==
    LET stripped == node_without_embedding(node)
    IN  [w EXCEPT
            !.idx = IndexStructAddNode(@, stripped, new_id),
            !.docs = DocstoreAddDocs(@, stripped),
            !.info = DocstoreAddInfo(@, stripped),
            !.calls = @ \o <<Call("index_struct", "add_node", <<stripped>>, new_id),
                             Call("docstore", "add_documents", <<stripped>>, NoId)>>]

RECURSIVE MirrorLoop(_, _, _, _)
MirrorLoop(w, all_nodes, all_new_ids, i) ==
    IF i > Len(all_nodes) \/ i > Len(all_new_ids) THEN w
    ELSE MirrorLoop(MirrorOne(w, all_nodes[i], all_new_ids[i]),
                    all_nodes, all_new_ids, i + 1)

\* the mirroring run whether or not an embedding call raised
MirrorStage_Always(w, st, ov) ==
    IF Mirroring(st, ov)
    THEN MirrorLoop(w, w.text_nodes \o w.image_nodes,
                    w.new_text_ids \o w.new_img_ids, 1)
    ELSE w

\* lines 282-293: mirror into the index struct and the document store
MirrorStage(w, st, ov) ==
    LET all_nodes == w.text_nodes \o w.image_nodes
        all_new_ids == w.new_text_ids \o w.new_img_ids
    IN  IF w.raised # "none" THEN w
        ELSE IF Mirroring(st, ov) THEN MirrorLoop(w, all_nodes, all_new_ids, 1)
        ELSE w

\* lines 244-293: _add_nodes_to_index
add_nodes_to_index(w, nodes, fail, st, ov) ==
    IF nodes = <<>> THEN w
    ELSE MirrorStage(ImageStage(TextStage(Partition(w, nodes), fail), fail), st, ov)

\* lines 193-242: _async_add_nodes_to_index, the same statements in the same
\* order, each embedding and each add awaited before the next statement runs
async_add_nodes_to_index(w, nodes, fail, st, ov) ==
    IF nodes = <<>> THEN w
    ELSE MirrorStage(ImageStage(TextStage(Partition(w, nodes), fail), fail), st, ov)

\* -------------------------------------------------------------------- delete
\* line 304: self._store_nodes_override or self._vector_store.stores_text
DeleteGuard(st, ov) == ov \/ st

MinId(ids) == CHOOSE i \in ids : \A j \in ids : i[2] <= j[2]

\* lines 307-309: for node_id in ref_doc_info.node_ids; deleting a key the index
\* struct does not hold either raises (key_error) or does nothing
RECURSIVE NodeLoop(_, _, _)
NodeLoop(w, ids, key_error) ==
    IF ids = {} \/ w.raised # "none" THEN w
    ELSE LET node_id == MinId(ids)
             w1 == [w EXCEPT !.calls =
                       Append(@, Call("index_struct", "delete", <<>>, node_id))]
         IN  IF node_id \notin DOMAIN w.idx /\ key_error
             THEN [w1 EXCEPT !.raised = "key_error"]
             ELSE NodeLoop(
                    [w1 EXCEPT
                        !.idx = IndexStructDelete(@, node_id),
                        !.vs[DEFAULT_VECTOR_STORE] = VectorStoreDelete(@, node_id),
                        !.calls = Append(@, Call(DEFAULT_VECTOR_STORE, "delete",
                                                 <<>>, node_id))],
                    ids \ {node_id}, key_error)

\* lines 302-309: the body of the loop over the registered vector stores
StoreTurn(w, ns, ref_doc_id, key_error, st, ov) ==
    LET w1 == [w EXCEPT
                  !.vs[ns] = VectorStoreDelete(@, ref_doc_id),
                  !.calls = Append(@, Call(ns, "delete", <<>>, ref_doc_id))]
    IN  IF DeleteGuard(st, ov) /\ RefDocKnown(w1.info, ref_doc_id)
        THEN NodeLoop(w1, w1.info[ref_doc_id], key_error)
        ELSE w1

\* line 301: for vector_store in self._storage_context.vector_stores.values()
RECURSIVE StoreLoop(_, _, _, _, _, _, _)
StoreLoop(w, nss, i, ref_doc_id, key_error, st, ov) ==
    IF i > Len(nss) \/ w.raised # "none" THEN w
    ELSE StoreLoop(StoreTurn(w, nss[i], ref_doc_id, key_error, st, ov),
                   nss, i + 1, ref_doc_id, key_error, st, ov)

\* the docstore delete made with raise_error=True: an unknown id raises
DocstoreStage_RaiseError(w, ref_doc_id, delete_from_docstore) ==
    IF w.raised # "none" \/ ~delete_from_docstore THEN w
    ELSE IF ~RefDocKnown(w.info, ref_doc_id)
    THEN [w EXCEPT
            !.raised = "value_error",
            !.calls = Append(@, Call("docstore", "delete_ref_doc", <<>>, ref_doc_id))]
    ELSE [w EXCEPT
            !.docs = DocstoreDeleteDocs(@, w.info, ref_doc_id),
            !.info = DocstoreDeleteInfo(@, ref_doc_id),
            !.calls = Append(@, Call("docstore", "delete_ref_doc", <<>>, ref_doc_id))]

\* lines 311-312: self._docstore.delete_ref_doc(ref_doc_id, raise_error=False)
DocstoreStage(w, ref_doc_id, delete_from_docstore) ==
    IF w.raised # "none" \/ ~delete_from_docstore THEN w
    ELSE [w EXCEPT
            !.docs = DocstoreDeleteDocs(@, w.info, ref_doc_id),
            !.info = DocstoreDeleteInfo(@, ref_doc_id),
            !.calls = Append(@, Call("docstore", "delete_ref_doc", <<>>, ref_doc_id))]

\* line 314: self._storage_context.index_store.add_index_struct(self._index_struct)
PersistStage(w) ==
    IF w.raised # "none" THEN w
    ELSE [w EXCEPT
            !.persisted = w.idx,
            !.calls = Append(@, Call("index_store", "add_index_struct", <<>>, NoId))]

\* lines 295-314
delete_ref_doc(w, nss, ref_doc_id, delete_from_docstore, key_error, st, ov) ==
    PersistStage(
        DocstoreStage(StoreLoop(w, nss, 1, ref_doc_id, key_error, st, ov),
                      ref_doc_id, delete_from_docstore))

\* ------------------------------------------------------------ state machine
\* lines 42-80: the image namespace is registered next to whatever the storage
\* context already holds; the index is built over no nodes
Init ==
    /\ stores_text \in BOOLEAN
    /\ store_nodes_override \in BOOLEAN
    /\ namespaces \in {<<DEFAULT_VECTOR_STORE, image_namespace>>,
                       <<DEFAULT_VECTOR_STORE, "extra", image_namespace>>}
    /\ vector_stores = [ns \in {namespaces[i] : i \in DOMAIN namespaces} |-> {}]
    /\ docs = {}
    /\ ref_doc_info = [r \in {} |-> {}]
    /\ index_struct = EmptyStruct
    /\ index_store = EmptyStruct
    /\ lastCall = [op |-> "init", nodes |-> <<>>, ref_doc_id |-> NoId,
                   delete_from_docstore |-> FALSE, raised |-> "none"]
    /\ calls = <<>>
    /\ ever_stored = {}
    /\ ops = 0

\* the ref_doc_ids of the nodes a run handed to a vector store's add
StoredRefs(cs) ==
    UNION {{cs[i].nodes[j].ref_doc_id : j \in DOMAIN cs[i].nodes} :
              i \in {k \in DOMAIN cs : cs[k].op = "add"}}

Commit(w) ==
    /\ vector_stores' = w.vs
    /\ docs' = w.docs
    /\ ref_doc_info' = w.info
    /\ index_struct' = w.idx
    /\ index_store' = w.persisted
    /\ calls' = w.calls
    /\ ever_stored' = ever_stored \cup StoredRefs(w.calls)
    /\ ops' = ops + 1
    /\ UNCHANGED <<stores_text, store_nodes_override, namespaces>>

Insert ==
    /\ ops < MaxOps
    /\ \E nodes \in Batches, fail \in EmbedFailures :
        LET w == add_nodes_to_index(
                    Work(vector_stores, docs, ref_doc_info, index_struct, index_store),
                    nodes, fail, stores_text, store_nodes_override)
        IN  /\ Commit(w)
            /\ lastCall' = [op |-> "insert", nodes |-> nodes, ref_doc_id |-> NoId,
                            delete_from_docstore |-> FALSE, raised |-> w.raised]

AsyncInsert ==
    /\ ops < MaxOps
    /\ \E nodes \in Batches, fail \in EmbedFailures :
        LET w == async_add_nodes_to_index(
                    Work(vector_stores, docs, ref_doc_info, index_struct, index_store),
                    nodes, fail, stores_text, store_nodes_override)
        IN  /\ Commit(w)
            /\ lastCall' = [op |-> "insert", nodes |-> nodes, ref_doc_id |-> NoId,
                            delete_from_docstore |-> FALSE, raised |-> w.raised]

Delete ==
    /\ ops < MaxOps
    /\ \E ref_doc_id \in DocIds, delete_from_docstore \in BOOLEAN, key_error \in BOOLEAN :
        LET w == delete_ref_doc(
                    Work(vector_stores, docs, ref_doc_info, index_struct, index_store),
                    namespaces, ref_doc_id, delete_from_docstore, key_error,
                    stores_text, store_nodes_override)
        IN  /\ Commit(w)
            /\ lastCall' = [op |-> "delete", nodes |-> <<>>, ref_doc_id |-> ref_doc_id,
                            delete_from_docstore |-> delete_from_docstore,
                            raised |-> w.raised]

Next == Insert \/ AsyncInsert \/ Delete

Spec == Init /\ [][Next]_vars

\* ------------------------------------------------------------------ claims
\* what the last operation was
Inserted == lastCall.op = "insert" /\ lastCall.nodes # <<>>
InsertedOk == Inserted /\ lastCall.raised = "none"
Deleted == lastCall.op = "delete"

BatchNodes == {lastCall.nodes[i] : i \in DOMAIN lastCall.nodes}

\* the node copies the last operation handed to the add of the store ns
AddCalls(ns) == {i \in DOMAIN calls : calls[i].target = ns /\ calls[i].op = "add"}
Added(ns) == UNION {{calls[i].nodes[j] : j \in DOMAIN calls[i].nodes} : i \in AddCalls(ns)}

\* the node copies the last operation handed to the index struct or the docstore
MirrorCalls ==
    {i \in DOMAIN calls : calls[i].op \in {"add_node", "add_documents"}}
Mirrored == {calls[i].nodes[1] : i \in MirrorCalls}

\* the per-node deletes the last operation asked of the index struct / primary store
StructDeletes(id) ==
    {i \in DOMAIN calls :
        calls[i].target = "index_struct" /\ calls[i].op = "delete" /\ calls[i].id = id}
PrimaryNodeDeletes(id) ==
    {i \in DOMAIN calls :
        calls[i].target = DEFAULT_VECTOR_STORE /\ calls[i].op = "delete"
            /\ calls[i].id = id}

StoredIds(ns) == {e.id : e \in vector_stores[ns]}
DocIdsStored == {e.id : e \in docs}

\* C1: after delete_ref_doc(d), whatever the configuration, neither vector store,
\* nor the document store, nor the index structure holds an entry for a node id
\* of document d.
C1_NoOrphans ==
    Deleted =>
        \A id \in NodeIds :
            (\E k \in 1..NumIds : NodeOf(k).id = id
                                  /\ NodeOf(k).ref_doc_id = lastCall.ref_doc_id)
            => /\ id \notin StoredIds(DEFAULT_VECTOR_STORE)
               /\ id \notin StoredIds(image_namespace)
               /\ id \notin DocIdsStored
               /\ id \notin DOMAIN index_struct

\* C2 (as stated): an insert whose text or image embedding call failed has
\* mutated no vector store, nor the document store, nor the index structure.
C2_AllOrNothing ==
    [][(lastCall'.op = "insert" /\ ops' # ops /\ lastCall'.raised # "none")
        => UNCHANGED <<vector_stores, docs, ref_doc_info, index_struct>>]_vars

\* C2 (amended): a failed text embedding leaves every store untouched; a failed
\* image embedding leaves the image store, the document store and the index
\* structure untouched, the primary store having received the whole text
\* partition; with no failure every node with text is in the primary store and
\* every image node in the image store.
C2_FailureWindow ==
    [][(lastCall'.op = "insert" /\ ops' # ops /\ lastCall'.nodes # <<>>) =>
        LET batch == {lastCall'.nodes[i] : i \in DOMAIN lastCall'.nodes}
            texts == {n.id : n \in {m \in batch : m.text # ""}}
            images == {n.id : n \in {m \in batch : m.image}}
            primary == {e.id : e \in {x \in vector_stores'[DEFAULT_VECTOR_STORE] :
                                          x.embedding.model = "text"}}
            imgstore == {e.id : e \in {x \in vector_stores'[image_namespace] :
                                           x.embedding.model = "image"}}
        IN  /\ lastCall'.raised = "text_embed_error"
                => UNCHANGED <<vector_stores, docs, ref_doc_info, index_struct>>
            /\ lastCall'.raised = "image_embed_error"
                => /\ vector_stores'[image_namespace] = vector_stores[image_namespace]
                   /\ UNCHANGED <<docs, ref_doc_info, index_struct>>
                   /\ texts \subseteq primary
            /\ lastCall'.raised = "none"
                => texts \subseteq primary /\ images \subseteq imgstore]_vars

\* the image embedding failed after the text partition reached the primary store
C2_Witness ==
    /\ Inserted
    /\ lastCall.raised = "image_embed_error"
    /\ \E n \in BatchNodes : n.id \in StoredIds(DEFAULT_VECTOR_STORE)
    /\ StoredIds(image_namespace) = {}

\* C3: delete_ref_doc cleans up node by node exactly when mirroring was active
\* (the primary store keeps no text, or the override is set): then, the docstore
\* knowing the id, every constituent node id leaves the index structure and is
\* deleted from the primary store; otherwise no per-node delete is attempted.
C3_CleanupWhenMirrored ==
    [][(lastCall'.op = "delete" /\ ops' # ops) =>
        LET ref == lastCall'.ref_doc_id
            mirroring == ~stores_text \/ store_nodes_override
            cs == calls'
            structDeletes(id) ==
                {i \in DOMAIN cs : cs[i].target = "index_struct"
                                    /\ cs[i].op = "delete" /\ cs[i].id = id}
            primaryDeletes(id) ==
                {i \in DOMAIN cs : cs[i].target = DEFAULT_VECTOR_STORE
                                    /\ cs[i].op = "delete" /\ cs[i].id = id}
        IN  /\ (mirroring /\ ref \in DOMAIN ref_doc_info)
                => \A id \in ref_doc_info[ref] :
                      /\ id \notin DOMAIN index_struct'
                      /\ structDeletes(id) # {}
                      /\ primaryDeletes(id) # {}
            /\ ~mirroring
                => \A id \in NodeIds : structDeletes(id) = {} /\ primaryDeletes(id) = {}
       ]_vars

\* C4: an insert of a non-empty batch writes its text and image nodes to the index
\* structure and the document store if and only if the primary store keeps no
\* text or the override is set; otherwise it leaves both unchanged.
C4_MirrorIff ==
    [][(lastCall'.op = "insert" /\ ops' # ops /\ lastCall'.nodes # <<>>
            /\ lastCall'.raised = "none") =>
        LET batch == {lastCall'.nodes[i] : i \in DOMAIN lastCall'.nodes}
            handled == {n.id : n \in {m \in batch : m.text # "" \/ m.image}}
            cs == calls'
            written == {cs[i].nodes[1].id :
                          i \in {k \in DOMAIN cs :
                                    cs[k].op \in {"add_node", "add_documents"}}}
        IN  IF ~stores_text \/ store_nodes_override
            THEN /\ written = handled
                 /\ handled \subseteq DOMAIN index_struct'
                 /\ \A id \in handled : index_struct'[id] = id
                 /\ handled \subseteq {e.id : e \in docs'}
            ELSE /\ written = {}
                 /\ UNCHANGED <<index_struct, docs, ref_doc_info>>
       ]_vars

\* a text node and an image node were mirrored by the last insert
C4_Witness ==
    /\ InsertedOk
    /\ ~stores_text \/ store_nodes_override
    /\ \E n \in BatchNodes : n.image /\ n.id \in DocIdsStored /\ n.id \in DOMAIN index_struct
    /\ \E n \in BatchNodes : ~n.image /\ n.id \in DocIdsStored /\ n.id \in DOMAIN index_struct

\* C5: an image node with text reaches the primary store's add as a copy with its
\* id and the text embedder's vector, and the image store's add as a copy with
\* its id and the image embedder's vector.
C5_BothPartitions ==
    InsertedOk =>
        \A n \in BatchNodes :
            (n.image /\ n.text # "") =>
                /\ \E c \in Added(DEFAULT_VECTOR_STORE) :
                      c.id = n.id /\ c.embedding = [model |-> "text", id |-> n.id, of |-> n.text]
                /\ \E c \in Added(image_namespace) :
                      c.id = n.id /\ c.embedding = [model |-> "image", id |-> n.id, of |-> "img"]

\* a captioned image node was inserted and sits in both stores
C5_Witness ==
    /\ InsertedOk
    /\ \E n \in BatchNodes :
          /\ n.image /\ n.text # ""
          /\ n.id \in StoredIds(DEFAULT_VECTOR_STORE)
          /\ n.id \in StoredIds(image_namespace)

\* C6: a batch without image nodes makes no add call on the image store, and a
\* batch of image nodes without text makes no add call on the primary store.
C6_NoCrossAdd ==
    Inserted =>
        /\ (\A n \in BatchNodes : ~n.image) => AddCalls(image_namespace) = {}
        /\ (\A n \in BatchNodes : n.image /\ n.text = "")
              => AddCalls(DEFAULT_VECTOR_STORE) = {}

\* C7: delete_ref_doc of a logical id no insert ever stored raises nothing and
\* leaves the vector stores, the document store and the index structure as
\* they were, whatever delete_from_docstore is.
C7_UnknownIsNoOp ==
    [][(lastCall'.op = "delete" /\ ops' # ops
            /\ lastCall'.ref_doc_id \notin ever_stored)
        => /\ lastCall'.raised = "none"
           /\ UNCHANGED <<vector_stores, docs, ref_doc_info, index_struct>>]_vars

\* an unknown id was deleted, with delete_from_docstore set, while another
\* document was stored and mirrored
C7_Witness ==
    /\ Deleted
    /\ lastCall.ref_doc_id \notin ever_stored
    /\ lastCall.delete_from_docstore
    /\ lastCall.raised = "none"
    /\ StoredIds(DEFAULT_VECTOR_STORE) # {}
    /\ DocIdsStored # {}

\* C8: every copy written to the document store or registered in the index
\* structure has no embedding; the copies handed to the vector stores carry the
\* vector of their store's embedder.
C8_MirrorHasNoEmbedding ==
    /\ \A e \in docs : e.embedding.model = "none"
    /\ \A c \in Mirrored : c.embedding.model = "none"
    /\ \A c \in Added(DEFAULT_VECTOR_STORE) : c.embedding.model = "text"
    /\ \A c \in Added(image_namespace) : c.embedding.model = "image"
    /\ \A e \in vector_stores[DEFAULT_VECTOR_STORE] : e.embedding.model = "text"
    /\ \A e \in vector_stores[image_namespace] : e.embedding.model = "image"

\* an insert mirrored a node that the primary store holds with its vector
C8_Witness ==
    /\ InsertedOk
    /\ \E c \in Mirrored : c.id \in DocIdsStored /\ c.id \in StoredIds(DEFAULT_VECTOR_STORE)
    /\ \E c \in Mirrored : c.id \in StoredIds(image_namespace)

\* C9: after a successful insert every node of the batch was handed to a vector
\* store with a modality embedding: image nodes to the image store, nodes with
\* text to the primary store, and no node to neither.
C9_EveryNodeStored ==
    InsertedOk =>
        \A n \in BatchNodes :
            /\ n.image => \E c \in Added(image_namespace) :
                              c.id = n.id /\ c.embedding.model = "image"
            /\ n.text # "" => \E c \in Added(DEFAULT_VECTOR_STORE) :
                              c.id = n.id /\ c.embedding.model = "text"
            /\ \E c \in Added(DEFAULT_VECTOR_STORE) \cup Added(image_namespace) :
                  c.id = n.id

\* C10: one delete_ref_doc asks the index structure and the primary store to
\* delete each constituent node id at most once, however many vector stores are
\* registered.
C10_CleanupOnce ==
    Deleted =>
        \A id \in NodeIds :
            /\ Cardinality(StructDeletes(id)) <= 1
            /\ Cardinality(PrimaryNodeDeletes(id)) <= 1

====
